---- MODULE Spec2Model ----
(***************************************************************************)
(* Verification model of                                                   *)
(*   - MnistTrainer   (scvi/inference/semi_supervised_trainer.py)           *)
(*   - SCHANVAE       (scvi/external/schanvi/module/_schanvae.py)           *)
(*   - MuDataWrapper  (scvi/data/fields/_mudata.py)                         *)
(* Each part has its own specification over the shared variable tuple; the *)
(* variables of the other parts keep their initial value.                  *)
(***************************************************************************)
EXTENDS Integers, Sequences, FiniteSets, TLC

VARIABLES
    \* ---- MnistTrainer ----
    dataset,        \* loaders and labelled_fraction fixed by __init__
    pc,             \* position inside train()
    args,           \* the arguments / locals of the running train() call
    optims,         \* which optimizers train() has created
    epoch,          \* loop variable of `for epoch in range(n_epochs)`
    batch,          \* index of the current batch of train_loader
    iterate,        \* self.iterate
    training,       \* self.model.training (True = train mode, False = eval)
    metrics,        \* self.metrics, each list by its length
    grads,          \* .grad of the generative / variational parameters
    iter_log,       \* optimizer calls made in the current iteration
    psi_hist,       \* <<epoch, objective, reparam>> of the wake-phi losses of this call
    last_loss,      \* what the last call of self.loss() computed
    annot,          \* index of the current batch of cycle(train_annotated_loader)
    calls,          \* number of calls of train() entered so far
    start_iterate,  \* self.iterate when the running call of train() was entered
    passed,         \* the arguments as the caller passed them
    \* ---- SCHANVAE ----
    vae,            \* the SCHANVAE object, or how its construction ended
    call,           \* the last call of classify() / loss() and its result
    \* ---- MuDataWrapper ----
    field,          \* the MuData field object, or how building it ended
    mucall,         \* the running call of a method of the field and its result
    hook_effects    \* side effects the preregister hook has had so far

trainerVars == <<dataset, pc, args, optims, epoch, batch, iterate, training,
                 metrics, grads, iter_log, psi_hist, last_loss,
                 annot, calls, start_iterate, passed>>

callVars == <<calls, start_iterate, passed>>

vaeVars == <<vae, call>>

muVars == <<field, mucall, hook_effects>>

vars == <<trainerVars, vaeVars, muVars>>

None == "None"

\* ------------------------------------------------------------------------
\* Bounds of the model
\* ------------------------------------------------------------------------
MaxEpochs == 4
MaxBatches == 26
MaxAnnotBatches == 2
MaxCalls == 2
MaxLevels == 3
MaxClasses == 2
MaxVersion == 2
MaxGroupId == 1
MaxGroupsLen == 3
MaxBatchSize == 2
ProbDenom == 3
MaxMods == 2
MaxHookRuns == 2

\* ------------------------------------------------------------------------
\* MnistTrainer
\* ------------------------------------------------------------------------
\* `if self.iterate % 100 == 0`
LogEvery == 100

\* Optional integers are sequences: <<>> is None, <<k>> is the integer k.
NoInt == <<>>
IsNone(o) == o = <<>>

CombinedSchedules == {"REVKL+CUBO", "ELBO+CUBO", "ELBO+REVKL"}
WakePsiValues == {"ELBO", "REVKL"} \cup CombinedSchedules

\* labelled_fraction of the dataset as a fraction <<num, den>>
LabelledFractions == {<<1, 1>>, <<1, 2>>}

\* The loaders __init__ builds (lines 27-44): each is a shuffling DataLoader
\* over a non-empty set, so each has at least one batch.
Datasets ==
    [n_train_batches : {1, MaxBatches},
     n_annot_batches : {1, MaxAnnotBatches},
     labelled_fraction : LabelledFractions]

\* The sample-count arguments a caller passes. n_samples has default 1: a
\* caller who does not pass it calls with n_samples = 1.
SampleArgs ==
    { [n_samples |-> <<1>>, n_samples_phi |-> NoInt, n_samples_theta |-> NoInt],
      [n_samples |-> <<1>>, n_samples_phi |-> <<3>>, n_samples_theta |-> <<2>>],
      [n_samples |-> <<1>>, n_samples_phi |-> <<3>>, n_samples_theta |-> NoInt],
      [n_samples |-> NoInt, n_samples_phi |-> <<3>>, n_samples_theta |-> <<2>>],
      [n_samples |-> NoInt, n_samples_phi |-> <<3>>, n_samples_theta |-> NoInt],
      [n_samples |-> NoInt, n_samples_phi |-> NoInt, n_samples_theta |-> <<2>>] }

\* one call of train(), lines 57-70 (wake_theta is only ever "ELBO" here)
Call(e, o, w, sa, u, r) ==
    [n_epochs |-> e, overall_loss |-> o, wake_theta |-> "ELBO", wake_psi |-> w,
     n_samples |-> sa.n_samples, n_samples_phi |-> sa.n_samples_phi,
     n_samples_theta |-> sa.n_samples_theta,
     update_mode |-> u, reparam_wphi |-> r]

DefaultSamples ==
    [n_samples |-> <<1>>, n_samples_phi |-> NoInt, n_samples_theta |-> NoInt]

UpdateModes == {"all", "alternate", "other"}

\* The calls of train(): wake-sleep calls (overall_loss None) over every
\* wake_psi and reparam_wphi with the default sample counts, wake-sleep calls
\* over every choice of sample counts with the default wake_psi and
\* reparam_wphi, and joint calls, which never read wake_psi or reparam_wphi.
TrainCalls ==
    { Call(e, None, w, DefaultSamples, u, r) :
        e \in 0..MaxEpochs, w \in WakePsiValues, u \in UpdateModes, r \in BOOLEAN }
    \cup { Call(e, None, "ELBO", sa, u, TRUE) :
        e \in 0..MaxEpochs, sa \in SampleArgs, u \in UpdateModes }
    \cup { Call(e, "ELBO", "ELBO", sa, u, TRUE) :
        e \in 0..MaxEpochs, sa \in SampleArgs, u \in UpdateModes }

NoArgs == [n_epochs |-> 0, overall_loss |-> None, wake_theta |-> "ELBO",
           wake_psi |-> "ELBO", n_samples |-> NoInt, n_samples_phi |-> NoInt,
           n_samples_theta |-> NoInt, update_mode |-> "all", reparam_wphi |-> TRUE]

NoLoss == [phase |-> None, loss_type |-> None, n_samples |-> NoInt,
           reparam |-> TRUE, mode |-> None, terms |-> {},
           fwd_training |-> TRUE, at_iterate |-> 0]

EmptyMetrics == [train_theta_wake |-> 0, train_phi_wake |-> 0, train_phi_sleep |-> 0,
                 train_loss |-> 0, classification_loss |-> 0, train_cubo |-> 0]

NoOptims == [optim |-> FALSE, optim_gen |-> FALSE, optim_var_wake |-> FALSE]

NoGrads == [gen |-> <<>>, var |-> <<>>]

\* int(1 / labelled_fraction)
SEvery(lf) == lf[2] \div lf[1]

SwitchEpoch_Half(n_epochs) == n_epochs \div 2

\* int(n_epochs / 3)
SwitchEpoch(n_epochs) == n_epochs \div 3

\* lines 146-168: the objective and the reparameterisation flag of wake-phi
WakePsiEpoch(wake_psi, ep, n_epochs) ==
    IF wake_psi = "REVKL+CUBO"
      THEN IF ep <= SwitchEpoch(n_epochs) THEN "REVKL" ELSE "CUBO"
    ELSE IF wake_psi = "ELBO+CUBO"
      THEN IF ep <= SwitchEpoch(n_epochs) THEN "ELBO" ELSE "CUBO"
    ELSE IF wake_psi = "ELBO+REVKL"
      THEN IF ep <= SwitchEpoch(n_epochs) THEN "ELBO" ELSE "REVKL"
    ELSE wake_psi

ReparamEpoch(wake_psi, ep, n_epochs, reparam_wphi) ==
    IF wake_psi = "REVKL+CUBO"
      THEN IF ep <= SwitchEpoch(n_epochs) THEN FALSE ELSE TRUE
    ELSE IF wake_psi = "ELBO+CUBO"
      THEN TRUE
    ELSE IF wake_psi = "ELBO+REVKL"
      THEN IF ep <= SwitchEpoch(n_epochs) THEN TRUE ELSE FALSE
    ELSE reparam_wphi

TrainerInit ==
    /\ dataset \in Datasets
    /\ pc = "idle"
    /\ args = NoArgs
    /\ optims = NoOptims
    /\ epoch = 0
    /\ batch = 0
    /\ iterate = 0
    /\ training = TRUE
    /\ metrics = EmptyMetrics
    /\ grads = NoGrads
    /\ iter_log = <<>>
    /\ psi_hist = {}
    /\ last_loss = NoLoss
    /\ annot = 0
    /\ calls = 0
    /\ start_iterate = 0
    /\ passed = NoArgs

\* lines 212-221: the terms of j, each with the name of its weight
JTerms(mode, it, lf) ==
    IF mode = "all"
      THEN {<<"l_u", "1">>, <<"l_s", "labelled_fraction">>}
    ELSE IF it % SEvery(lf) = 0
      THEN {<<"l_s", "1">>}
      ELSE {<<"l_u", "1">>}

\* lines 223-225: loss = j + classification_ratio * l_class
LossTerms(mode, it, lf) ==
    JTerms(mode, it, lf) \cup {<<"l_class", "classification_ratio">>}

\* lines 237-245: inference() puts the model in the mode eval_mode asks for
\* and returns without changing it again
InferenceMode(eval_mode) == IF eval_mode THEN FALSE ELSE TRUE

\* lines 227-233: the periodic part of loss()
LossLogs(it) == it % LogEvery = 0

\* self.loss(...), lines 186-235, as one step of train()
LossCall(phase, loss_type, n_samples, reparam, mode) ==
    /\ last_loss' = [phase |-> phase, loss_type |-> loss_type,
                     n_samples |-> n_samples, reparam |-> reparam, mode |-> mode,
                     terms |-> LossTerms(mode, iterate, dataset.labelled_fraction),
                     fwd_training |-> training, at_iterate |-> iterate]
    /\ IF LossLogs(iterate)
         THEN /\ training' = InferenceMode(TRUE)
              /\ metrics' = [metrics EXCEPT
                               !.classification_loss = @ + 1,
                               !.train_cubo = @ + 1]
         ELSE UNCHANGED <<training, metrics>>

\* the parameter groups an optimizer owns (lines 87-88, 91-96, 98-104)
ParamsOf(opt) ==
    IF opt = "optim" THEN {"gen", "var"}
    ELSE IF opt = "optim_gen" THEN {"gen"}
    ELSE {"var"}

ZeroGrad_Skipped(opt) ==
    /\ grads' = grads
    /\ iter_log' = Append(iter_log, <<"zero_grad", opt>>)

\* optimizer.zero_grad() clears the .grad of the parameters the optimizer owns
ZeroGrad(opt) ==
    /\ grads' = [g \in DOMAIN grads |-> IF g \in ParamsOf(opt) THEN <<>> ELSE grads[g]]
    /\ iter_log' = Append(iter_log, <<"zero_grad", opt>>)

\* loss.backward() accumulates into the .grad of every parameter of the model
Backward(phase) ==
    /\ grads' = [g \in DOMAIN grads |-> Append(grads[g], phase)]
    /\ iter_log' = Append(iter_log, <<"backward", phase>>)

\* optimizer.step() applies the .grad of the parameters it owns
OptStep(opt) ==
    /\ iter_log' = Append(iter_log,
                          <<"step", opt, [g \in ParamsOf(opt) |-> grads[g]]>>)
    /\ UNCHANGED grads

MetricAppend(key) ==
    metrics' = IF iterate % LogEvery = 0
                 THEN [metrics EXCEPT ![key] = @ + 1]
                 ELSE metrics

EpochBatches_NoCycle(n_train, n_annot) ==
    IF n_train <= n_annot THEN n_train ELSE n_annot

\* lines 110-112: zip(self.train_loader, cycle(self.train_annotated_loader))
\* yields one pair per batch of train_loader, the annotated batches repeating
EpochBatches(n_train, n_annot) == IF n_annot = 0 THEN 0 ELSE n_train

FirstStage_AlwaysWakeSleep(a) == "theta_loss"

\* lines 113 and 129: the branch an iteration takes
FirstStage(a) == IF a.overall_loss # None THEN "joint_loss" ELSE "theta_loss"

\* lines 71-72
AssertsHold(a) ==
    /\ a.update_mode \in {"all", "alternate"}
    /\ IsNone(a.n_samples_phi) = IsNone(a.n_samples_theta)

\* lines 74-76
SamplesResolved(a) ==
    IF ~IsNone(a.n_samples)
      THEN [a EXCEPT !.n_samples_theta = a.n_samples, !.n_samples_phi = a.n_samples]
      ELSE a

\* lines 83-107
OptimsCreated(a) ==
    IF a.overall_loss # None
      THEN [optim |-> TRUE, optim_gen |-> FALSE, optim_var_wake |-> FALSE]
      ELSE [optim |-> FALSE, optim_gen |-> TRUE, optim_var_wake |-> TRUE]

\* train(a), lines 57-109: asserts, sample counts, optimizers, loop entry
Enter(a) ==
    /\ passed' = a
    /\ calls' = calls + 1
    /\ start_iterate' = iterate
    /\ psi_hist' = {}
    /\ IF ~AssertsHold(a)
         THEN /\ pc' = "AssertionError"
              /\ args' = a
              /\ UNCHANGED <<optims, epoch, batch, annot>>
         ELSE /\ args' = SamplesResolved(a)
              /\ optims' = OptimsCreated(a)
              /\ epoch' = 0
              /\ batch' = 0
              /\ annot' = 0
              /\ pc' = IF a.n_epochs > 0
                            /\ EpochBatches(dataset.n_train_batches,
                                            dataset.n_annot_batches) > 0
                         THEN FirstStage(a) ELSE "done"
    /\ UNCHANGED <<dataset, iterate, training, metrics, grads, iter_log, last_loss>>
    /\ UNCHANGED <<vaeVars, muVars>>

\* the first call of train() on the trainer
TrainCall ==
    /\ pc = "idle"
    /\ \E a \in TrainCalls : Enter(a)

\* a further call of train() on the same trainer, with the same arguments
TrainAgain ==
    /\ pc = "done"
    /\ calls < MaxCalls
    /\ Enter(passed)

\* lines 114-122
JointLoss ==
    /\ pc = "joint_loss"
    /\ LossCall("joint", args.overall_loss, args.n_samples, TRUE, args.update_mode)
    /\ pc' = "joint_zero"
    /\ UNCHANGED <<dataset, args, optims, epoch, batch, iterate, grads, iter_log, psi_hist>>
    /\ UNCHANGED <<vaeVars, muVars>>
    /\ UNCHANGED <<annot, callVars>>

\* line 123
JointZeroGrad ==
    /\ pc = "joint_zero"
    /\ ZeroGrad("optim")
    /\ pc' = "joint_bwd"
    /\ UNCHANGED <<dataset, args, optims, epoch, batch, iterate, training, metrics, psi_hist, last_loss>>
    /\ UNCHANGED <<vaeVars, muVars>>
    /\ UNCHANGED <<annot, callVars>>

\* line 124
JointBackward ==
    /\ pc = "joint_bwd"
    /\ Backward("joint")
    /\ pc' = "joint_step"
    /\ UNCHANGED <<dataset, args, optims, epoch, batch, iterate, training, metrics, psi_hist, last_loss>>
    /\ UNCHANGED <<vaeVars, muVars>>
    /\ UNCHANGED <<annot, callVars>>

\* lines 125-128
JointStep ==
    /\ pc = "joint_step"
    /\ OptStep("optim")
    /\ MetricAppend("train_loss")
    /\ pc' = "inc"
    /\ UNCHANGED <<dataset, args, optims, epoch, batch, iterate, training, psi_hist, last_loss>>
    /\ UNCHANGED <<vaeVars, muVars>>
    /\ UNCHANGED <<annot, callVars>>

\* lines 131-138
ThetaLoss ==
    /\ pc = "theta_loss"
    /\ LossCall("theta", args.wake_theta, args.n_samples_theta, TRUE, "all")
    /\ pc' = "gen_zero"
    /\ UNCHANGED <<dataset, args, optims, epoch, batch, iterate, grads, iter_log, psi_hist>>
    /\ UNCHANGED <<vaeVars, muVars>>
    /\ UNCHANGED <<annot, callVars>>

\* line 139
GenZeroGrad ==
    /\ pc = "gen_zero"
    /\ ZeroGrad("optim_gen")
    /\ pc' = "theta_bwd"
    /\ UNCHANGED <<dataset, args, optims, epoch, batch, iterate, training, metrics, psi_hist, last_loss>>
    /\ UNCHANGED <<vaeVars, muVars>>
    /\ UNCHANGED <<annot, callVars>>

\* line 140
ThetaBackward ==
    /\ pc = "theta_bwd"
    /\ Backward("theta")
    /\ pc' = "gen_step"
    /\ UNCHANGED <<dataset, args, optims, epoch, batch, iterate, training, metrics, psi_hist, last_loss>>
    /\ UNCHANGED <<vaeVars, muVars>>
    /\ UNCHANGED <<annot, callVars>>

\* lines 141-143
GenStep ==
    /\ pc = "gen_step"
    /\ OptStep("optim_gen")
    /\ MetricAppend("train_theta_wake")
    /\ pc' = "psi_loss"
    /\ UNCHANGED <<dataset, args, optims, epoch, batch, iterate, training, psi_hist, last_loss>>
    /\ UNCHANGED <<vaeVars, muVars>>
    /\ UNCHANGED <<annot, callVars>>

\* lines 145-177
PsiLoss ==
    /\ pc = "psi_loss"
    /\ LossCall("psi",
                WakePsiEpoch(args.wake_psi, epoch, args.n_epochs),
                args.n_samples_phi,
                ReparamEpoch(args.wake_psi, epoch, args.n_epochs, args.reparam_wphi),
                "all")
    /\ psi_hist' = psi_hist \cup
         {<<epoch, WakePsiEpoch(args.wake_psi, epoch, args.n_epochs),
            ReparamEpoch(args.wake_psi, epoch, args.n_epochs, args.reparam_wphi)>>}
    /\ pc' = "var_zero"
    /\ UNCHANGED <<dataset, args, optims, epoch, batch, iterate, grads, iter_log>>
    /\ UNCHANGED <<vaeVars, muVars>>
    /\ UNCHANGED <<annot, callVars>>

\* line 178
VarZeroGrad ==
    /\ pc = "var_zero"
    /\ ZeroGrad("optim_var_wake")
    /\ pc' = "psi_bwd"
    /\ UNCHANGED <<dataset, args, optims, epoch, batch, iterate, training, metrics, psi_hist, last_loss>>
    /\ UNCHANGED <<vaeVars, muVars>>
    /\ UNCHANGED <<annot, callVars>>

\* line 179
PsiBackward ==
    /\ pc = "psi_bwd"
    /\ Backward("psi")
    /\ pc' = "var_step"
    /\ UNCHANGED <<dataset, args, optims, epoch, batch, iterate, training, metrics, psi_hist, last_loss>>
    /\ UNCHANGED <<vaeVars, muVars>>
    /\ UNCHANGED <<annot, callVars>>

\* lines 180-182
VarStep ==
    /\ pc = "var_step"
    /\ OptStep("optim_var_wake")
    /\ MetricAppend("train_phi_wake")
    /\ pc' = "inc"
    /\ UNCHANGED <<dataset, args, optims, epoch, batch, iterate, training, psi_hist, last_loss>>
    /\ UNCHANGED <<vaeVars, muVars>>
    /\ UNCHANGED <<annot, callVars>>

\* line 184 and the advance of the two loops (lines 109-112)
Increment ==
    /\ pc = "inc"
    /\ iterate' = iterate + 1
    /\ iter_log' = <<>>
    /\ IF batch + 1 < EpochBatches(dataset.n_train_batches, dataset.n_annot_batches)
         THEN /\ batch' = batch + 1
              /\ annot' = (annot + 1) % dataset.n_annot_batches
              /\ epoch' = epoch
              /\ pc' = FirstStage(args)
         ELSE IF epoch + 1 < args.n_epochs
           THEN /\ batch' = 0
                /\ annot' = 0
                /\ epoch' = epoch + 1
                /\ pc' = FirstStage(args)
           ELSE /\ UNCHANGED <<batch, annot, epoch>>
                /\ pc' = "done"
    /\ UNCHANGED <<dataset, args, optims, training, metrics, grads, psi_hist, last_loss>>
    /\ UNCHANGED callVars
    /\ UNCHANGED <<vaeVars, muVars>>

\* ------------------------------------------------------------------------
\* SCHANVAE
\* ------------------------------------------------------------------------
RECURSIVE SumSeq(_)
SumSeq(q) == IF q = <<>> THEN 0 ELSE q[1] + SumSeq(Tail(q))

RECURSIVE GCD(_, _)
GCD(a, b) == IF b = 0 THEN a ELSE GCD(b, a % b)

\* the fraction a / b in lowest terms
Frac(a, b) == IF a = 0 THEN <<0, 1>> ELSE <<a \div GCD(a, b), b \div GCD(a, b)>>

\* A probability vector over n categories, its entries in units of
\* 1 / ProbDenom: what a classifier head outputs for one observation.
Dists(n) == {q \in [1..n -> 0..ProbDenom] : SumSeq(q) = ProbDenom}

OneHot(n, c) == [k \in 1..n |-> IF k = c + 1 THEN ProbDenom ELSE 0]

SeqsUpTo(S, n) == UNION {[1..k -> S] : k \in 0..n}

\* num_classes: the label hierarchy, finest level last
Hierarchies == SeqsUpTo(1..MaxClasses, MaxLevels) \ {<<>>}

\* line 122
NLabels(num_classes) == num_classes[Len(num_classes)]

\* lines 160-165: y_prior as entries num[c] / den
YPrior(y_prior, n_labels) ==
    IF y_prior # <<>>
      THEN [num |-> y_prior[1], den |-> ProbDenom]
      ELSE [num |-> [k \in 1..n_labels |-> 1], den |-> n_labels]

RECURSIVE SortedSeq(_)
SortedSeq(S) ==
    IF S = {} THEN <<>>
    ELSE LET m == CHOOSE x \in S : \A z \in S : x <= z
         IN  <<m>> \o SortedSeq(S \ {m})

\* np.unique(self.labels_groups), line 173
Unique(labels_groups) == SortedSeq({labels_groups[k] : k \in 1..Len(labels_groups)})

\* np.arange(self.n_groups), line 175
Arange(n) == [k \in 1..n |-> k - 1]

GroupIdsValid_Unchecked(unique_groups, n_groups) == TRUE

\* line 175: (unique_groups == np.arange(self.n_groups)).all()
GroupIdsValid(unique_groups, n_groups) ==
    \A k \in 1..n_groups : unique_groups[k] = Arange(n_groups)[k]

GroupsIndex_AtMost(labels_groups, n_groups) ==
    [g \in 1..n_groups |->
       [k \in 1..Len(labels_groups) |-> IF labels_groups[k] <= g - 1 THEN 1 ELSE 0]]

\* lines 181-192: one 0/1 mask over the positions of labels_groups per group
GroupsIndex(labels_groups, n_groups) ==
    [g \in 1..n_groups |->
       [k \in 1..Len(labels_groups) |-> IF labels_groups[k] = g - 1 THEN 1 ELSE 0]]

NoVae == [status |-> "none", n_version |-> 0, num_classes |-> <<>>, n_labels |-> 0,
          y_prior |-> [num |-> <<>>, den |-> 1], use_labels_groups |-> FALSE,
          labels_groups |-> <<>>, n_groups |-> 0, groups_index |-> <<>>,
          created |-> {}]

\* what __init__ has built when it reaches line 166
BaseParts == {"classifier", "encoder_z2_z1", "decoder_z1_z2", "y_prior"}

\* SCHANVAE.__init__, lines 73-192. labels_groups is <<>> for None and
\* <<array>> otherwise; y_prior likewise.
Construct(n_version, num_classes, y_prior, labels_groups, use_labels_groups) ==
    LET n_labels == NLabels(num_classes)
        base == [NoVae EXCEPT
                   !.n_version = n_version,
                   !.num_classes = num_classes,
                   !.n_labels = n_labels,
                   !.y_prior = YPrior(y_prior, n_labels),
                   !.use_labels_groups = use_labels_groups,
                   !.labels_groups = labels_groups,
                   !.created = BaseParts]
    IN  IF ~use_labels_groups
          THEN [base EXCEPT !.status = "ok"]
        ELSE IF labels_groups = <<>>
          THEN [base EXCEPT !.status = "ValueError"]
        ELSE LET unique_groups == Unique(labels_groups[1])
                 n_groups == Len(unique_groups)
             IN  IF ~GroupIdsValid(unique_groups, n_groups)
                   THEN [base EXCEPT !.status = "ValueError", !.n_groups = n_groups]
                   ELSE [base EXCEPT
                           !.status = "ok",
                           !.n_groups = n_groups,
                           !.groups_index = GroupsIndex(labels_groups[1], n_groups),
                           !.created = BaseParts \cup {"classifier_groups", "groups_index"}]

\* The configurations the model is constructed with: either the hierarchy,
\* the variant and the prior vary (no label groups), or the label groups
\* vary over a one-level hierarchy.
VaeConfigs ==
    { <<v, nc, yp, <<>>, FALSE>> :
        v \in 0..MaxVersion, nc \in Hierarchies,
        yp \in {<<>>} \cup {<<q>> : q \in UNION {Dists(n) : n \in 1..MaxClasses}} }
    \cup
    { <<0, <<n>>, <<>>, lg, u>> :
        n \in 1..MaxClasses,
        lg \in {<<>>} \cup {<<g>> : g \in SeqsUpTo(0..MaxGroupId, MaxGroupsLen) \ {<<>>}},
        u \in BOOLEAN }

NoCall == [op |-> "none", status |-> "none"]

VaeInit ==
    /\ vae = NoVae
    /\ call = NoCall

ConstructVae ==
    /\ vae.status = "none"
    /\ \E c \in VaeConfigs :
         /\ c[3] # <<>> => Len(c[3][1]) = NLabels(c[2])
         /\ vae' = Construct(c[1], c[2], c[3], c[4], c[5])
    /\ UNCHANGED call
    /\ UNCHANGED <<trainerVars, muVars>>

\* `unw_y_g.sum(dim=-1, keepdim=True) + 1e-8`, line 220: 1e-8 = 1 / EpsInv
EpsInv == 100000000

\* the positions of the labels a mask selects
Members(mask) == {k \in 1..Len(mask) : mask[k] = 1}

\* unw_y[:, group_index].sum(dim=-1), in units of 1 / ProbDenom
GroupMass(unw_y, mask) == SumSeq([k \in 1..Len(mask) |-> unw_y[k] * mask[k]])

\* lines 219-221: unw_y_g / (unw_y_g.sum(...) + 1e-8), as a fraction <<num, den>>
Normalised(u, mass) == <<u * EpsInv, mass * EpsInv + ProbDenom>>

Weighted_GroupWeightDropped(f, w) == <<f[1] * ProbDenom, f[2] * ProbDenom>>

\* line 222: w_y[:, group_index] *= w_g[:, [i]]
Weighted(f, w) == <<f[1] * w, f[2] * ProbDenom>>

\* lines 216-222: the loop over the groups; each pass writes the entries of
\* its mask, a later pass overwriting an earlier one
RECURSIVE GroupLoop(_, _, _, _, _)
GroupLoop(w_y, unw_y, w_g, groups_index, g) ==
    IF g > Len(groups_index) THEN w_y
    ELSE LET mask == groups_index[g]
             mass == GroupMass(unw_y, mask)
             upd  == [k \in 1..Len(w_y) |->
                        IF k \in Members(mask)
                          THEN Weighted(Normalised(unw_y[k], mass), w_g[g])
                          ELSE w_y[k]]
         IN  GroupLoop(upd, unw_y, w_g, groups_index, g + 1)

\* torch.zeros_like(unw_y), line 216
ZerosLike(unw_y) == [k \in 1..Len(unw_y) |-> <<0, 1>>]

\* indexing a tensor of n_labels columns with a mask of another length raises
MasksFit(m) == \A g \in 1..Len(m.groups_index) : Len(m.groups_index[g]) = m.n_labels

\* SCHANVAE.classify, lines 213-225, for one observation
Classify(m, unw_y, w_g) ==
    IF m.use_labels_groups
      THEN IF ~MasksFit(m)
             THEN [op |-> "classify", status |-> "IndexError",
                   unw_y |-> unw_y, w_g |-> w_g, w_y |-> <<>>]
             ELSE [op |-> "classify", status |-> "ok",
                   unw_y |-> unw_y, w_g |-> w_g,
                   w_y |-> GroupLoop(ZerosLike(unw_y), unw_y, w_g, m.groups_index, 1)]
      ELSE [op |-> "classify", status |-> "ok", unw_y |-> unw_y, w_g |-> w_g,
            w_y |-> [k \in 1..Len(unw_y) |-> <<unw_y[k], ProbDenom>>]]

\* the output of the group classifier for one observation
GroupDists(m) == IF m.use_labels_groups /\ m.n_groups > 0 THEN Dists(m.n_groups) ELSE {<<>>}

ClassifyCall ==
    /\ vae.status = "ok"
    /\ call = NoCall
    /\ \E unw_y \in Dists(vae.n_labels), w_g \in GroupDists(vae) :
         call' = Classify(vae, unw_y, w_g)
    /\ UNCHANGED vae
    /\ UNCHANGED <<trainerVars, muVars>>

\* `self.classifier(z1)[1]`, line 363: the Python index taken
ProbsIndex == 1

\* broadcast_labels(y, z1, n_broadcast=self.n_labels), line 293: the labels
\* the rows of ys / z1s stand for, per observation
LabelRows(feed_labels, n_labels, y) ==
    IF feed_labels THEN {y} ELSE 0..(n_labels - 1)

\* rows of z1s for a batch of batch_size observations
BroadcastRows(feed_labels, n_labels, batch_size) ==
    IF feed_labels THEN batch_size ELSE n_labels * batch_size

\* A term of the loss of one observation: <<tensor, label, coefficient, factor>>.
\* label is -1 for a tensor with one entry per observation; the coefficient
\* is a fraction; factor names the scalar argument that multiplies it. The
\* common 1 / batch_size of the batch mean is left out.
PerObs(name, factor) == <<name, -1, <<1, 1>>, factor>>

\* lines 336-341 (with the means of lines 332-335)
LabelledTerms(rows) ==
    {PerObs("reconst_loss", "1"), PerObs("loss_z1_weight", "1"),
     PerObs("kl_divergence_l", "kl_weight")}
    \cup {<<"loss_z1_unweight", c, Frac(1, Cardinality(rows)), "1">> : c \in rows}
    \cup {<<"kl_divergence_z2", c, Frac(1, Cardinality(rows)), "kl_weight">> : c \in rows}

MarginalTerms_Unweighted(probs) ==
    {PerObs("reconst_loss", "1"), PerObs("loss_z1_weight", "1"),
     PerObs("kl_divergence_cat", "kl_weight"), PerObs("kl_divergence_l", "kl_weight")}
    \cup {<<"loss_z1_unweight", c - 1, <<1, 1>>, "1">> : c \in 1..Len(probs)}
    \cup {<<"kl_divergence_z2", c - 1, <<1, 1>>, "kl_weight">> : c \in 1..Len(probs)}

\* lines 364-380, when column c of the broadcast terms meets probs[c]
MarginalTerms(probs) ==
    {PerObs("reconst_loss", "1"), PerObs("loss_z1_weight", "1"),
     PerObs("kl_divergence_cat", "kl_weight"), PerObs("kl_divergence_l", "kl_weight")}
    \cup {<<"loss_z1_unweight", c - 1, Frac(probs[c], ProbDenom), "1">> : c \in 1..Len(probs)}
    \cup {<<"kl_divergence_z2", c - 1, Frac(probs[c], ProbDenom), "kl_weight">> :
            c \in 1..Len(probs)}

\* lines 364-380, when the shapes broadcast without the columns being the
\* labels of the observation: the terms are combined across the wrong axis
MisalignedTerms ==
    {PerObs("reconst_loss", "1"), PerObs("loss_z1_weight", "1"),
     PerObs("kl_divergence_cat", "kl_weight"), PerObs("kl_divergence_l", "kl_weight"),
     <<"loss_z1_unweight", -2, <<1, 1>>, "misaligned">>,
     <<"kl_divergence_z2", -2, <<1, 1>>, "misaligned">>}

\* two sizes of one dimension broadcast
Broadcasts(a, b) == a = b \/ a = 1 \/ b = 1

\* kl(Categorical(probs), Categorical(y_prior)) is zero exactly when the two
\* distributions are equal
KlCatZero(probs, prior) ==
    /\ Len(probs) = Len(prior.num)
    /\ \A c \in 1..Len(probs) : probs[c] * prior.den = prior.num[c] * ProbDenom

\* lines 347-359, 390-402, 404-413: the keyword fields of the LossRecorder
RecorderFields(path, with_classifier) ==
    {"loss_z1_weight_mean", "loss_z1_unweight_mean", "kl_divergence_z2_mean",
     "kl_divergence_l_mean"}
    \cup (IF path = "marginal" THEN {"kl_divergence_cat_mean"} ELSE {})
    \cup (IF with_classifier THEN {"classification_loss"} ELSE {})
    \cup (IF path = "labelled" THEN {"n_labelled_tensors"} ELSE {})

ClassifierTerm == PerObs("classification_loss", "classification_ratio")

LossRaised(inp, status) ==
    [op |-> "loss", status |-> status, inp |-> inp, path |-> "marginal",
     aligned |-> FALSE, terms |-> {}, kl_cat_zero |-> FALSE,
     classification_added |-> 0, record |-> {}]

\* lines 330-331
TakesLabelledPath(m, inp) == inp.labelled_tensors /\ m.n_version = 1

\* lines 388-389
AddsClassifier(m, inp) == inp.labelled_tensors /\ m.n_version = 0

\* SCHANVAE.loss, lines 260-413, for one observation of a batch.
\* inp: feed_labels, labelled_tensors (given or None), batch_size, y (the
\* finest label of the observation, -1 without labels), probs (the entry
\* ProbsIndex of the classifier's output, <<>> if there is none).
Loss(m, inp) ==
    LET n    == m.n_labels
        rows == BroadcastRows(inp.feed_labels, n, inp.batch_size)
        labs == LabelRows(inp.feed_labels, n, inp.y)
    IN  IF TakesLabelledPath(m, inp)
          THEN [op |-> "loss", status |-> "ok", inp |-> inp, path |-> "labelled",
                aligned |-> TRUE,
                terms |-> LabelledTerms(labs) \cup {ClassifierTerm},
                kl_cat_zero |-> FALSE,
                classification_added |-> 1,
                record |-> RecorderFields("labelled", TRUE)]
        ELSE IF Len(m.num_classes) < ProbsIndex + 1
          THEN LossRaised(inp, "IndexError")
        ELSE IF rows % n # 0
          THEN LossRaised(inp, "RuntimeError")
        ELSE IF ~(Broadcasts(n, Len(inp.probs))
                  /\ Broadcasts(rows \div n, inp.batch_size))
          THEN LossRaised(inp, "RuntimeError")
        ELSE LET aligned == (rows \div n = inp.batch_size) /\ n = Len(inp.probs)
                 cls == AddsClassifier(m, inp)
             IN  [op |-> "loss", status |-> "ok", inp |-> inp, path |-> "marginal",
                  aligned |-> aligned,
                  terms |-> (IF aligned THEN MarginalTerms(inp.probs)
                                        ELSE MisalignedTerms)
                            \cup (IF cls THEN {ClassifierTerm} ELSE {}),
                  kl_cat_zero |-> KlCatZero(inp.probs, m.y_prior),
                  classification_added |-> IF cls THEN 1 ELSE 0,
                  record |-> RecorderFields("marginal", cls)]

\* the inputs of a call of loss() on model m
LossInputs(m) ==
    { [feed_labels |-> f, labelled_tensors |-> lt, batch_size |-> b, y |-> y,
       probs |-> q] :
        f \in BOOLEAN, lt \in BOOLEAN, b \in 1..MaxBatchSize,
        y \in -1..(m.n_labels - 1),
        q \in IF Len(m.num_classes) < ProbsIndex + 1
                THEN {<<>>}
                ELSE Dists(m.num_classes[ProbsIndex + 1]) }

LossCall_Vae ==
    /\ vae.status = "ok"
    /\ call = NoCall
    /\ \E inp \in LossInputs(vae) :
         /\ inp.feed_labels <=> inp.y >= 0
         /\ call' = Loss(vae, inp)
    /\ UNCHANGED vae
    /\ UNCHANGED <<trainerVars, muVars>>

\* the caller is done with the result of classify() / loss(); neither call
\* changes the model, so the next call starts from the same object
Return ==
    /\ call # NoCall
    /\ call' = NoCall
    /\ UNCHANGED vae
    /\ UNCHANGED <<trainerVars, muVars>>

\* ------------------------------------------------------------------------
\* MuDataWrapper
\* ------------------------------------------------------------------------
\* the names of modalities
ModKeys == 1..MaxMods

\* mod_key: None (<<>>) or the name of a modality
ModKeyArgs == {NoInt} \cup { <<k>> : k \in ModKeys }

\* what a caller passes as mdata: an AnnData, or a MuData with its .mod
MDatas ==
    { [kind |-> "AnnData", mod |-> {}] }
    \cup { [kind |-> "MuData", mod |-> m] : m \in SUBSET ModKeys }

NoField == [status |-> "none", mod_key |-> NoInt, preregister |-> "none"]

NoMuCall == [op |-> "none", status |-> "none"]

MuInit ==
    /\ field = NoField
    /\ mucall = NoMuCall
    /\ hook_effects = 0

\* BaseMuDataWrapper.__init__, lines 12-19
BaseInit(mod_key, mod_required) ==
    IF mod_required /\ IsNone(mod_key)
      THEN [status |-> "ValueError", mod_key |-> NoInt, preregister |-> "none"]
      ELSE [status |-> "ok", mod_key |-> mod_key, preregister |-> "lambda"]

\* MuDataWrapper(adata_field_cls, preregister_fn) and the __init__ of the
\* class it returns, lines 84-104
MuDataWrapper(is_class, has_fn, mod_key, mod_required) ==
    IF ~is_class
      THEN [status |-> "ValueError", mod_key |-> NoInt, preregister |-> "none"]
      ELSE LET base == BaseInit(mod_key, mod_required)
           IN  IF base.status = "ok" /\ has_fn
                 THEN [base EXCEPT !.preregister = "preregister_fn"]
                 ELSE base

\* get_modality, lines 49-57
GetModality(f, mdata) ==
    IF mdata.kind = "AnnData"
      THEN [status |-> "AssertionError", bdata |-> <<>>]
    ELSE IF IsNone(f.mod_key)
      THEN [status |-> "ok", bdata |-> <<"mdata">>]
    ELSE IF f.mod_key[1] \notin mdata.mod
      THEN [status |-> "ValueError", bdata |-> <<>>]
      ELSE [status |-> "ok", bdata |-> <<"mod", f.mod_key[1]>>]

\* the side effects of one call of the hook: the default hook has none
HookEffects(f) == IF f.preregister = "preregister_fn" THEN 1 ELSE 0

\* a method that looks the modality up and hands it to the wrapped field's
\* method of the same name (validate_field, lines 59-61; transfer_field,
\* lines 71-75)
Delegated(f, op, mdata) ==
    LET got == GetModality(f, mdata)
    IN  [op |-> op, mdata |-> mdata, status |-> got.status,
         events |-> IF got.status = "ok"
                      THEN << <<"adata_field", op, got.bdata>> >>
                      ELSE <<>>,
         hook_effects |-> 0]

\* register_field, lines 66-69: the hook, then the lookup, then the wrapped
\* field's register_field
Registered(f, mdata) ==
    LET got == GetModality(f, mdata)
    IN  [op |-> "register_field", mdata |-> mdata, status |-> got.status,
         events |-> << <<"preregister">> >>
                    \o (IF got.status = "ok"
                          THEN << <<"adata_field", "register_field", got.bdata>> >>
                          ELSE <<>>),
         hook_effects |-> HookEffects(f)]

BuildField ==
    /\ field.status = "none"
    /\ \E is_class \in BOOLEAN, has_fn \in BOOLEAN,
          mod_key \in ModKeyArgs, mod_required \in BOOLEAN :
         field' = MuDataWrapper(is_class, has_fn, mod_key, mod_required)
    /\ UNCHANGED <<mucall, hook_effects>>
    /\ UNCHANGED <<trainerVars, vaeVars>>

ValidateField ==
    /\ field.status = "ok"
    /\ mucall = NoMuCall
    /\ \E mdata \in MDatas : mucall' = Delegated(field, "validate_field", mdata)
    /\ UNCHANGED <<field, hook_effects>>
    /\ UNCHANGED <<trainerVars, vaeVars>>

RegisterField ==
    /\ field.status = "ok"
    /\ mucall = NoMuCall
    /\ hook_effects < MaxHookRuns
    /\ \E mdata \in MDatas :
         /\ mucall' = Registered(field, mdata)
         /\ hook_effects' = hook_effects + HookEffects(field)
    /\ UNCHANGED field
    /\ UNCHANGED <<trainerVars, vaeVars>>

TransferField ==
    /\ field.status = "ok"
    /\ mucall = NoMuCall
    /\ \E mdata \in MDatas : mucall' = Delegated(field, "transfer_field", mdata)
    /\ UNCHANGED <<field, hook_effects>>
    /\ UNCHANGED <<trainerVars, vaeVars>>

\* the call has returned or raised; the field is ready for the next call
MuReturn ==
    /\ mucall # NoMuCall
    /\ mucall' = NoMuCall
    /\ UNCHANGED <<field, hook_effects>>
    /\ UNCHANGED <<trainerVars, vaeVars>>

\* ------------------------------------------------------------------------
\* Specifications
\* ------------------------------------------------------------------------
\* MnistTrainer: a trainer after __init__, then calls of train()
Init == TrainerInit /\ VaeInit /\ MuInit

Next ==
    \/ TrainCall
    \/ TrainAgain
    \/ JointLoss
    \/ JointZeroGrad
    \/ JointBackward
    \/ JointStep
    \/ ThetaLoss
    \/ GenZeroGrad
    \/ ThetaBackward
    \/ GenStep
    \/ PsiLoss
    \/ VarZeroGrad
    \/ PsiBackward
    \/ VarStep
    \/ Increment

Spec == Init /\ [][Next]_vars

\* SCHANVAE: construction, then calls of classify() and loss()
TrainerParked ==
    /\ TrainerInit
    /\ dataset = [n_train_batches |-> 1, n_annot_batches |-> 1,
                  labelled_fraction |-> <<1, 1>>]

InitVae == TrainerParked /\ VaeInit /\ MuInit

NextVae ==
    \/ ConstructVae
    \/ ClassifyCall
    \/ LossCall_Vae
    \/ Return

SpecVae == InitVae /\ [][NextVae]_vars

\* MuDataWrapper: a field is built, then its methods are called
InitMu == TrainerParked /\ VaeInit /\ MuInit

NextMu ==
    \/ BuildField
    \/ ValidateField
    \/ RegisterField
    \/ TransferField
    \/ MuReturn

SpecMu == InitMu /\ [][NextMu]_vars

\* ------------------------------------------------------------------------
\* Properties of MnistTrainer
\* ------------------------------------------------------------------------
InTrainCall == pc \notin {"idle", "AssertionError"}

IsStep(e) == e[1] = "step"

\* the optimizers stepped so far in the current iteration, in order
StepsOfIteration ==
    LET st == SelectSeq(iter_log, IsStep)
    IN  [i \in 1..Len(st) |-> st[i][2]]

IsPrefix(s, t) == Len(s) <= Len(t) /\ \A i \in 1..Len(s) : s[i] = t[i]

\* C1: every training forward pass computed by loss() during train() runs
\* with the model in training mode.
C1_ForwardInTrainingMode ==
    last_loss.phase # None => last_loss.fwd_training = TRUE

\* C2: the mode of a train() call is fixed by overall_loss. With overall_loss
\* given, only the joint optimizer exists and an iteration makes exactly one
\* step, of that optimizer; with overall_loss None the joint optimizer is
\* never created and an iteration makes exactly one step of the generative
\* optimizer followed by exactly one step of the variational optimizer.
C2_ModeFixedByOverallLoss ==
    InTrainCall =>
      LET expected == IF args.overall_loss # None
                        THEN <<"optim">>
                        ELSE <<"optim_gen", "optim_var_wake">>
      IN  /\ optims.optim = (args.overall_loss # None)
          /\ optims.optim_gen = (args.overall_loss = None)
          /\ optims.optim_var_wake = (args.overall_loss = None)
          /\ IsPrefix(StepsOfIteration, expected)
          /\ pc = "inc" => StepsOfIteration = expected

C2_Witness ==
    /\ pc = "inc"
    /\ iterate >= 1
    /\ args.overall_loss = None
    /\ StepsOfIteration = <<"optim_gen", "optim_var_wake">>

FirstOf(w) == IF w = "REVKL+CUBO" THEN "REVKL" ELSE "ELBO"
SecondOf(w) == IF w = "ELBO+REVKL" THEN "REVKL" ELSE "CUBO"

ObjectivesUsed == {h[2] : h \in psi_hist}

\* C3: with a combined schedule "A+B" wake-phi uses A in the epochs e with
\* 3e <= n_epochs and B in the later ones, so it never changes back from B
\* to A; the reparameterisation flag is False exactly with REVKL; from
\* n_epochs = 2 on both A and B are used. With any other wake_psi the
\* objective is wake_psi and the flag reparam_wphi in every epoch.
C3_WakePsiSchedule ==
    /\ \A h \in psi_hist :
         IF args.wake_psi \in CombinedSchedules
           THEN /\ h[2] = IF 3 * h[1] <= args.n_epochs
                            THEN FirstOf(args.wake_psi)
                            ELSE SecondOf(args.wake_psi)
                /\ h[3] = (h[2] # "REVKL")
           ELSE /\ h[2] = args.wake_psi
                /\ h[3] = args.reparam_wphi
    /\ \A h1, h2 \in psi_hist :
         (args.wake_psi \in CombinedSchedules /\ h1[1] <= h2[1]
            /\ h1[2] = SecondOf(args.wake_psi))
         => h2[2] = SecondOf(args.wake_psi)
    /\ (pc = "done" /\ args.wake_psi \in CombinedSchedules
          /\ args.overall_loss = None /\ args.n_epochs >= 2)
         => ObjectivesUsed = {FirstOf(args.wake_psi), SecondOf(args.wake_psi)}

C3_Witness ==
    /\ pc = "done"
    /\ args.wake_psi = "REVKL+CUBO"
    /\ args.n_epochs = 4
    /\ psi_hist = {<<0, "REVKL", FALSE>>, <<1, "REVKL", FALSE>>,
                   <<2, "CUBO", TRUE>>, <<3, "CUBO", TRUE>>}

\* ------------------------------------------------------------------------
\* Properties of SCHANVAE
\* ------------------------------------------------------------------------
LossReturned == call.op = "loss" /\ call.status = "ok"

CatKlTerm == PerObs("kl_divergence_cat", "kl_weight")

\* C4: loss() chooses its composition by feed_labels alone: with labels the
\* labelled composition, without marginalisation and without the categorical
\* KL; without labels the composition marginalised over the labels with the
\* classifier probabilities, plus the categorical KL.
C4_CompositionByFeedLabels ==
    LossReturned =>
      IF call.inp.feed_labels
        THEN /\ call.path = "labelled"
             /\ CatKlTerm \notin call.terms
             /\ call.terms \ {ClassifierTerm} = LabelledTerms({call.inp.y})
        ELSE /\ call.path = "marginal"
             /\ CatKlTerm \in call.terms
             /\ call.terms \ {ClassifierTerm} = MarginalTerms(call.inp.probs)

\* C5: a loss computed with labelled_tensors contains classification_ratio x
\* classification_loss exactly once and its record carries
\* classification_loss, whatever n_version is; without labelled_tensors no
\* classification term is added.
C5_ClassificationAddedOnce ==
    LossReturned =>
      IF call.inp.labelled_tensors
        THEN /\ call.classification_added = 1
             /\ ClassifierTerm \in call.terms
             /\ "classification_loss" \in call.record
        ELSE /\ call.classification_added = 0
             /\ ClassifierTerm \notin call.terms
             /\ "classification_loss" \notin call.record

GroupIds == {vae.labels_groups[1][k] : k \in 1..Len(vae.labels_groups[1])}

GroupParts == {"classifier_groups", "groups_index"}

\* C6: with use_labels_groups construction raises ValueError exactly when
\* labels_groups is None or its distinct ids are not 0..n_groups-1, and then
\* no group classifier and no group index exists; without use_labels_groups
\* nothing is validated.
C6_GroupValidation ==
    vae.status # "none" =>
      IF vae.use_labels_groups
        THEN LET bad == \/ vae.labels_groups = <<>>
                        \/ GroupIds # 0..(Cardinality(GroupIds) - 1)
             IN  /\ bad => /\ vae.status = "ValueError"
                           /\ vae.created \cap GroupParts = {}
                           /\ vae.groups_index = <<>>
                 /\ ~bad => /\ vae.status = "ok"
                            /\ GroupParts \subseteq vae.created
        ELSE /\ vae.status = "ok"
             /\ vae.created \cap GroupParts = {}

C6_Witness ==
    /\ vae.status = "ValueError"
    /\ vae.use_labels_groups
    /\ vae.labels_groups = <<(<<1, 1>>)>>

\* C7: with use_labels_groups, a labels_groups array whose length is not
\* n_labels makes construction raise, so the masks of a constructed model
\* have length n_labels.
C7_LengthMismatchRaises ==
    /\ (vae.status # "none" /\ vae.use_labels_groups /\ vae.labels_groups # <<>>
          /\ Len(vae.labels_groups[1]) # vae.n_labels)
         => vae.status = "ValueError"
    /\ vae.status = "ok" =>
         \A g \in 1..Len(vae.groups_index) : Len(vae.groups_index[g]) = vae.n_labels

\* C8: after a successful construction with use_labels_groups every position
\* of labels_groups is set in exactly one of the masks groups_index[0..
\* n_groups-1], and every mask has a position set.
C8_MasksPartition ==
    (vae.status = "ok" /\ vae.use_labels_groups) =>
      /\ Len(vae.groups_index) = vae.n_groups
      /\ \A k \in 1..Len(vae.labels_groups[1]) :
           Cardinality({g \in 1..vae.n_groups : vae.groups_index[g][k] = 1}) = 1
      /\ \A g \in 1..vae.n_groups :
           /\ Len(vae.groups_index[g]) = Len(vae.labels_groups[1])
           /\ \E k \in 1..Len(vae.groups_index[g]) : vae.groups_index[g][k] = 1

C8_Witness ==
    /\ vae.status = "ok"
    /\ vae.use_labels_groups
    /\ vae.n_groups = 2
    /\ Len(vae.labels_groups[1]) = 3

GroupedClassify == call.op = "classify" /\ call.status = "ok" /\ vae.use_labels_groups

\* the tolerance of the comparisons below is 100 x 1e-8
TolInv == EpsInv \div 100

\* the returned probabilities of the members of group g, summed: the
\* numerators over the denominator the members share
SumNum(g) ==
    SumSeq([k \in 1..Len(call.w_y) |->
              IF k \in Members(vae.groups_index[g]) THEN call.w_y[k][1] ELSE 0])

SumDen(g) == call.w_y[CHOOSE k \in Members(vae.groups_index[g]) : TRUE][2]

SameDen(g) == \A k \in Members(vae.groups_index[g]) : call.w_y[k][2] = SumDen(g)

Dist(a, b) == IF a >= b THEN a - b ELSE b - a

\* SumNum(g) / SumDen(g) is within 1 / TolInv of t / ProbDenom
SumNear(g, t) ==
    /\ SameDen(g)
    /\ Dist(SumNum(g), t * (SumDen(g) \div ProbDenom)) <= SumDen(g) \div TolInv

NonVanishing(c) ==
    {t \in c.terms : t[3][1] # 0 /\ ~(t = CatKlTerm /\ c.kl_cat_zero)}

CollapsedOn(y) ==
    /\ LossReturned
    /\ call.path = "marginal"
    /\ call.aligned
    /\ ~call.inp.feed_labels
    /\ call.inp.probs = OneHot(vae.n_labels, y)

\* C10 as stated: with the classifier probabilities one-hot on y, the terms
\* that remain in the marginalised loss, with their weights, are those of
\* the labelled loss for y, and no other term is left.
C10_MarginalEqualsLabelled ==
    \A y \in 0..(vae.n_labels - 1) :
      CollapsedOn(y) => NonVanishing(call) \ {ClassifierTerm} = LabelledTerms({y})

\* C10 as amended: with the classifier probabilities one-hot on y, the
\* marginalised loss is the labelled loss for y plus kl_weight times the
\* categorical KL of the one-hot distribution against y_prior, a term that
\* vanishes only when y_prior gives y probability 1.
C10_MarginalIsLabelledPlusCatKl ==
    \A y \in 0..(vae.n_labels - 1) :
      CollapsedOn(y) =>
        NonVanishing(call) \ {ClassifierTerm} =
          LabelledTerms({y})
            \cup (IF vae.y_prior.num[y + 1] = vae.y_prior.den THEN {} ELSE {CatKlTerm})

C10_Witness ==
    /\ CollapsedOn(1)
    /\ vae.n_labels = 2
    /\ vae.y_prior = [num |-> <<1, 1>>, den |-> 2]
    /\ LabelledTerms({1}) \subseteq NonVanishing(call)
    /\ CatKlTerm \in NonVanishing(call)

(***************************************************************************)
(* C11: the iteration counter of train()                                   *)
(***************************************************************************)
\* the trainer with weak fairness of its steps: a call of train() that can
\* take its next step takes it (the loop body is straight-line code)
SpecFair == Init /\ [][Next]_vars /\ WF_vars(Next)

Running == pc \notin {"idle", "done", "AssertionError"}

\* batches of train_loader the running call has completed
BatchesDone == epoch * dataset.n_train_batches + batch

\* C11: train(n_epochs) terminates; on return self.iterate has increased by
\* exactly n_epochs times the number of batches of train_loader, whatever the
\* number of batches of the cycled annotated loader; while the call runs the
\* counter is its value at entry plus the batches completed, one per batch;
\* it never decreases and is not reset by a further call of train().
C11_IterateCountsTrainBatches ==
    /\ [](pc = "done" =>
            iterate = start_iterate + args.n_epochs * dataset.n_train_batches)
    /\ [](Running => iterate = start_iterate + BatchesDone)
    /\ [][/\ iterate' >= iterate
           /\ iterate' # iterate => iterate' = iterate + 1 /\ pc = "inc"]_vars
    /\ [][calls' # calls => iterate' = iterate /\ start_iterate' = iterate]_vars
    /\ (Running ~> pc = "done")

\* a second call of train() has returned after several epochs over a train
\* loader with more batches than the annotated loader
C11_Witness ==
    /\ pc = "done"
    /\ calls = 2
    /\ args.n_epochs > 1
    /\ dataset.n_annot_batches > 1
    /\ dataset.n_train_batches > dataset.n_annot_batches
    /\ start_iterate = args.n_epochs * dataset.n_train_batches
    /\ iterate = 2 * start_iterate

(***************************************************************************)
(* C12: the probability vector of the marginalised path                    *)
(***************************************************************************)
\* a call of loss() that took the marginalised path (lines 361-374), whether
\* it returned or raised there
MarginalCall == call.op = "loss" /\ ~TakesLabelledPath(vae, call.inp)

\* C12: in the marginalised path of loss() the probability vector is the
\* classifier's output for the last hierarchy level and has n_labels entries,
\* for every hierarchy of one or more levels: taking it raises nothing, the
\* level taken is the last one, and its length is n_labels.
C12_ProbsFromFinestLevel ==
    MarginalCall =>
        /\ call.status # "IndexError"
        /\ ProbsIndex + 1 = Len(vae.num_classes)
        /\ Len(call.inp.probs) = vae.n_labels

(***************************************************************************)
(* C13: each optimizer step applies one backward pass of its own phase     *)
(***************************************************************************)
\* the phase whose loss an optimizer minimises (lines 113-125, 130-141, 170-180)
PhaseOf(opt) ==
    IF opt = "optim" THEN "joint"
    ELSE IF opt = "optim_gen" THEN "theta"
    ELSE "psi"

\* C13: every optimizer step of train() comes directly after the backward
\* pass of its own phase's loss, which comes directly after that optimizer's
\* zero_grad, and the gradient it applies to each parameter group it owns is
\* the gradient of exactly that one backward pass: what another phase's
\* backward pass left on the parameter has been cleared.
C13_StepAppliesOwnBackward ==
    \A i \in 1..Len(iter_log) :
        IsStep(iter_log[i]) =>
            LET opt == iter_log[i][2]
            IN  /\ i >= 3
                /\ iter_log[i - 2] = <<"zero_grad", opt>>
                /\ iter_log[i - 1] = <<"backward", PhaseOf(opt)>>
                /\ \A g \in ParamsOf(opt) : iter_log[i][3][g] = <<PhaseOf(opt)>>

\* a wake-sleep iteration after the first has made both steps: the generative
\* parameters entered it holding the gradient of the previous wake-phi pass,
\* the variational parameters received the gradient of this wake-theta pass
C13_Witness ==
    /\ pc = "inc"
    /\ args.overall_loss = None
    /\ iterate >= 1
    /\ Len(SelectSeq(iter_log, IsStep)) = 2
    /\ grads.gen = <<"theta", "psi">>
    /\ grads.var = <<"psi">>

(***************************************************************************)
(* C14: periodic metric logging                                            *)
(***************************************************************************)
\* between two iterations of a call of train(), or after its return
BetweenIterations == pc \in {"joint_loss", "theta_loss", "done"}

\* the iterations completed so far whose counter was a multiple of LogEvery
LoggingIterations == (iterate + LogEvery - 1) \div LogEvery

\* C14: an iteration whose counter is a multiple of 100 adds exactly one
\* entry to every metric list its mode writes (train_loss, classification_loss
\* and train_cubo in joint mode; train_theta_wake, train_phi_wake,
\* classification_loss and train_cubo in wake-sleep mode) and any other
\* iteration adds none, so between iterations each of these lists has one
\* entry per logging iteration completed and the lists no mode of this
\* trainer writes stay empty.
C14_OneEntryPerLoggingIteration ==
    BetweenIterations =>
        LET n == LoggingIterations
        IN  /\ metrics.classification_loss = n
            /\ metrics.train_cubo = n
            /\ metrics.train_phi_sleep = 0
            /\ IF args.overall_loss # None
                 THEN /\ metrics.train_loss = n
                      /\ metrics.train_theta_wake = 0
                      /\ metrics.train_phi_wake = 0
                 ELSE /\ metrics.train_theta_wake = n
                      /\ metrics.train_phi_wake = n
                      /\ metrics.train_loss = 0

(***************************************************************************)
(* C15: update_mode in every loss of train()                               *)
(***************************************************************************)
\* the terms of j in the loss last computed (the loss without l_class)
JOfLastLoss == last_loss.terms \ {<<"l_class", "classification_ratio">>}

\* C15: with update_mode "alternate" every loss computed during train(), in
\* joint mode and in both phases of wake-sleep mode, is the labelled term
\* alone when iterate % int(1 / labelled_fraction) = 0 and the unlabelled
\* term alone otherwise; with update_mode "all" every loss is the unlabelled
\* term plus labelled_fraction times the labelled term.
C15_UpdateModeInEveryLoss ==
    last_loss.phase # None =>
        IF args.update_mode = "alternate"
          THEN JOfLastLoss =
                 IF last_loss.at_iterate % SEvery(dataset.labelled_fraction) = 0
                   THEN {<<"l_s", "1">>}
                   ELSE {<<"l_u", "1">>}
          ELSE JOfLastLoss = {<<"l_u", "1">>, <<"l_s", "labelled_fraction">>}

(***************************************************************************)
(* C16: the per-phase sample counts                                        *)
(***************************************************************************)
\* the caller passed n_samples_theta and n_samples_phi and left n_samples out,
\* so that n_samples has its default
BothPassedOnly ==
    /\ calls >= 1
    /\ passed.n_samples = DefaultSamples.n_samples
    /\ ~IsNone(passed.n_samples_theta)
    /\ ~IsNone(passed.n_samples_phi)

ExactlyOnePassed ==
    /\ calls >= 1
    /\ IsNone(passed.n_samples_theta) # IsNone(passed.n_samples_phi)

\* C16: when the caller passes n_samples_theta and n_samples_phi and not
\* n_samples, every wake-theta loss is computed with n_samples_theta samples
\* and every wake-phi loss with n_samples_phi samples; when exactly one of
\* the two is passed the call fails its assertion with no optimizer created
\* and no counter, metric, gradient or mode changed.
C16_SampleCountsAsPassed ==
    /\ BothPassedOnly /\ last_loss.phase = "theta" =>
           last_loss.n_samples = passed.n_samples_theta
    /\ BothPassedOnly /\ last_loss.phase = "psi" =>
           last_loss.n_samples = passed.n_samples_phi
    /\ ExactlyOnePassed =>
           /\ pc = "AssertionError"
           /\ optims = NoOptims
           /\ iterate = 0
           /\ metrics = EmptyMetrics
           /\ grads = NoGrads
           /\ training = TRUE

(***************************************************************************)
(* C17: the wrapper's calls of the hook and of the wrapped field           *)
(***************************************************************************)
IsHookCall(e) == e[1] = "preregister"

IsWrappedCall(e) == e[1] = "adata_field"

InMuCall == mucall.op # "none"

\* the modality lookup of the running call fails
LookupFails ==
    \/ mucall.mdata.kind = "AnnData"
    \/ ~IsNone(field.mod_key) /\ field.mod_key[1] \notin mucall.mdata.mod

\* C17: register_field calls the preregister hook exactly once, before the
\* wrapped field's register_field; validate_field and transfer_field never
\* call the hook; when the modality lookup fails (AssertionError for an
\* AnnData, ValueError for a mod_key not in mdata.mod) the error propagates,
\* the wrapped field's method is not called and no side effect of the hook
\* has taken place; with mod_key None the wrapped field receives the MuData
\* object itself.
C17_HookOnceAndNothingOnLookupFailure ==
    InMuCall =>
        /\ mucall.op = "register_field" /\ mucall.status = "ok" =>
               mucall.events = << <<"preregister">>,
                                  <<"adata_field", "register_field",
                                    mucall.events[2][3]>> >>
        /\ mucall.op = "register_field" =>
               Len(SelectSeq(mucall.events, IsHookCall)) = 1
        /\ mucall.op # "register_field" =>
               SelectSeq(mucall.events, IsHookCall) = <<>>
        /\ LookupFails =>
               /\ mucall.status =
                     IF mucall.mdata.kind = "AnnData" THEN "AssertionError"
                                                      ELSE "ValueError"
               /\ SelectSeq(mucall.events, IsWrappedCall) = <<>>
               /\ mucall.hook_effects = 0
        /\ ~LookupFails =>
               /\ mucall.status = "ok"
               /\ Len(SelectSeq(mucall.events, IsWrappedCall)) = 1
        /\ ~LookupFails /\ IsNone(field.mod_key) =>
               mucall.events[Len(mucall.events)] =
                   <<"adata_field", mucall.op, <<"mdata">> >>

====
